---- MODULE Spec2Model ----
(***************************************************************************)
(* kafka-threadpool: a pool of tokio tasks that drain a shared, mutex     *)
(* protected Vec of KafkaPublishMessage and publish each message to       *)
(* kafka, plus the KafkaPublisher facade that callers use to enqueue,     *)
(* drain and shut the pool down.                                          *)
(*                                                                         *)
(* State: the shared work Vec and its Mutex, the configuration, one       *)
(* record of local variables per worker task, the executor threads the    *)
(* tasks run on, and one facade caller.  Every critical section is two    *)
(* steps (lock, then body and unlock), so that other threads interleave   *)
(* exactly where the code lets them.                                      *)
(***************************************************************************)
EXTENDS Integers, Sequences, FiniteSets, TLC

(* ------------------------------ bounds -------------------------------- *)
\* largest config.num_threads explored
MaxThreads == 2
\* number of calls the caller makes while workers run
MaxCalls == 2
\* number of calls the caller makes on a facade without workers
MaxApiCalls == 3
\* number of calls the caller makes when it enqueues more than one batch at once
MaxBurstCalls == 2
\* longest Vec handed to one add_msgs / enqueue call
MaxBurst == 11
\* longest Vec handed to add_msgs while the caller makes MaxCalls calls
SmallBurst == 2
\* most topics, and most partitions of a topic, in the metadata of the cluster
MaxTopics == 2
MaxPartitions == 2

(* ------------------------- program constants -------------------------- *)
\* drain_messages_from_locked_work_vec drains at most this many messages
BatchCap == 10
\* the worker logs msg.payload[..10] of every Data message
PayloadSub == 10

VARIABLES
    config,          \* KafkaClientConfig: is_enabled, broker_list, tls_files, num_threads
    num_exec,        \* executor threads of the runtime the tasks are spawned on
    budget,          \* what the caller is explored for: calls, lengths of Vecs
    publish_msgs,    \* the Vec inside Arc<Mutex<Vec<KafkaPublishMessage>>>
    lock_owner,      \* set of threads holding the MutexGuard (empty: unlocked)
    poisoned,        \* the Mutex's poison flag
    pc,              \* per worker: position in thread_process_messages_handler
    work_vec,        \* per worker: local work_vec
    msg,             \* per worker: the message removed from work_vec, <<>> if none
    retrying,        \* per worker: the last publish of msg returned a non-zero status
    should_shutdown, \* per worker: local should_shutdown
    on_exec,         \* worker tasks that occupy an executor thread
    published,       \* history: per worker, the messages whose publish returned 0
    batch,           \* history: per worker, the batch in hand as it was drained
    requeued,        \* history: per worker, number of Shutdown clones it appended
    caller,          \* the caller's call in progress: pc, op, msgs
    ret,             \* the caller's last completed call: op, arg, result
    enqueued,        \* history: the messages the caller appended, in order
    drained,         \* history: the messages the caller's drains returned, in order
    calls,           \* number of calls the caller has started
    next_id          \* number of messages the caller has created

vars == <<config, num_exec, budget, publish_msgs, lock_owner, poisoned, pc, work_vec,
          msg, retrying, should_shutdown, on_exec, published, batch, requeued,
          caller, ret, enqueued, drained, calls, next_id>>

worker_vars == <<pc, work_vec, msg, retrying, should_shutdown, on_exec, published,
                 batch, requeued>>
caller_vars == <<caller, ret, enqueued, drained, calls, next_id>>
env_vars == <<config, num_exec, budget>>

(* ----------------------------- messages ------------------------------- *)
MsgTypes == {"Data", "Shutdown", "LogBrokerDetails", "LogBrokerTopicDetails",
             "Sensitive"}

\* KafkaPublishMessage::new_from via build_kafka_publish_message
build_kafka_publish_message(msg_type, topic, key, headers, payload) ==
    [msg_type |-> msg_type, topic |-> topic, key |-> key,
     headers |-> headers, payload |-> payload]

\* Option<HashMap<String, String>> of the headers field: None, or Some of the
\* map's entries in the order the map iterates them
None == <<>>
Some(entries) == <<entries>>

\* {:?} of a String (the inputs hold no character that is escaped)
DebugString(str) == "\"" \o str \o "\""

\* {:?} of the entries of a HashMap<String, String>
RECURSIVE DebugEntries(_)
DebugEntries(entries) ==
    IF Len(entries) = 0 THEN ""
    ELSE DebugString(entries[1][1]) \o ": " \o DebugString(entries[1][2])
            \o (IF Len(entries) > 1 THEN ", " \o DebugEntries(Tail(entries)) ELSE "")

\* {:?} of the headers field
DebugHeaders(headers) ==
    IF headers = None THEN "None" ELSE "Some({" \o DebugEntries(headers[1]) \o "})"

\* the fields both representations print for every kind: derive(Debug) of the
\* kind prints the variant's name
FormatFields(m) ==
    "KafkaPublishMessage type=" \o m.msg_type \o " topic=" \o m.topic
        \o " key=" \o m.key \o " headers=" \o DebugHeaders(m.headers)

\* faulty variant: the payload is printed for every kind
DisplayWithPayload(m) == FormatFields(m) \o " payload=" \o m.payload

\* impl Display for KafkaPublishMessage
Display(m) ==
    IF m.msg_type # "Sensitive"
    THEN FormatFields(m) \o " payload=" \o m.payload
    ELSE "SENSITIVE " \o FormatFields(m)

\* impl Debug for KafkaPublishMessage
Debug(m) ==
    IF m.msg_type # "Sensitive"
    THEN "DEBUG " \o FormatFields(m) \o " payload=" \o m.payload
    ELSE "DEBUG SENSITIVE " \o FormatFields(m)

\* the payloads of the example program: format!("test message {i}")
LongPayload(i) == "test message " \o ToString(i)
\* a payload of fewer than 10 bytes
ShortPayload(i) == "msg " \o ToString(i)
\* a payload of more than 10 bytes whose byte 10 is inside a character
SplitPayload(i) == "test msg é" \o ToString(i)

\* the headers of the example program: one entry, "header {i}" -> "value {i}"
ExampleHeaders(i) == Some(<<<<"header " \o ToString(i), "value " \o ToString(i)>>>>)

\* the Vec of n Data messages the example builds, numbered from `first`
DataBurst(first, n) ==
    [i \in 1..n |->
        build_kafka_publish_message("Data", "testing", "testing",
                                    ExampleHeaders(first + i - 1),
                                    LongPayload(first + i - 1))]

\* the message KafkaPublisher::shutdown builds
ShutdownMsg == build_kafka_publish_message("Shutdown", "", "", None, "")

(* ------------------------------ results ------------------------------- *)
Ok(v) == [ok |-> TRUE, val |-> v]
Err(e) == [ok |-> FALSE, val |-> e]
NoMsgsErr == "no msgs to add"
\* format!("failed to get lock on work vec with err={e}") of a PoisonError
LockErr ==
    "failed to get lock on work vec with err=poisoned lock: another task failed inside"

(* --------------------------- queue functions -------------------------- *)
\* faulty variant: the drain takes the whole Vec, without the cap
DrainCountUncapped(v) == Len(v)

\* faulty variant: the cap of the drain is off by one
DrainCountOneMore(v) == IF Len(v) > BatchCap THEN BatchCap + 1 ELSE Len(v)

\* number of messages one drain removes
DrainCount(v) == IF Len(v) > BatchCap THEN BatchCap ELSE Len(v)

\* faulty variant: a drain of a poisoned Mutex hands out a copy of the batch
DrainedFromPoisoned(v, is_poisoned) == SubSeq(v, 1, DrainCount(v))

\* faulty variant: the drain hands out the batch newest message first
DrainedNewestFirst(v, is_poisoned) ==
    IF is_poisoned THEN <<>>
    ELSE [i \in 1..DrainCount(v) |-> v[DrainCount(v) + 1 - i]]

\* Vec::drain(0..k).collect(): the drained messages, and what stays
Drained(v, is_poisoned) ==
    IF is_poisoned THEN <<>> ELSE SubSeq(v, 1, DrainCount(v))
\* faulty variant: the drain hands out the batch and empties the Vec
AfterDrainClears(v, is_poisoned) ==
    IF is_poisoned THEN v ELSE <<>>

\* faulty variant: the drain copies the messages and leaves them in the queue
AfterDrainKeeps(v, is_poisoned) == v

AfterDrain(v, is_poisoned) ==
    IF is_poisoned THEN v ELSE SubSeq(v, DrainCount(v) + 1, Len(v))

\* faulty variant: the guard of a poisoned Mutex is recovered and the append done
AfterAddIntoPoisoned(v, msgs, is_poisoned) == v \o msgs

\* faulty variant: the new messages are put in front of the pending ones
AfterAddInFront(v, msgs, is_poisoned) ==
    IF is_poisoned THEN v ELSE msgs \o v

\* faulty variant: the enqueue reports the failure of a worker to its caller
AddResultReportsWorkers(v, msgs, is_poisoned) ==
    IF Len(msgs) = 0 THEN Err(NoMsgsErr)
    ELSE IF is_poisoned THEN Err(LockErr)
    ELSE IF \E w \in DOMAIN pc : pc[w] \in {"exited", "panicked", "retry_sleep"}
         THEN Err("worker failed")
    ELSE Ok(Len(v) + Len(msgs))

\* Vec::append under the lock, and the value add_messages_to_locked_work_vec returns
AfterAdd(v, msgs, is_poisoned) ==
    IF is_poisoned THEN v ELSE v \o msgs
AddResult(v, msgs, is_poisoned) ==
    IF Len(msgs) = 0 THEN Err(NoMsgsErr)
    ELSE IF is_poisoned THEN Err(LockErr)
    ELSE Ok(Len(AfterAdd(v, msgs, is_poisoned)))

(* ------------------------------ threads ------------------------------- *)
\* cur_thread_num of the spawned tasks
Workers == 0..(MaxThreads - 1)
WorkerThread(w) == <<"worker", w>>
CallerThread == <<"caller">>
Unlocked == lock_owner = {}

\* a task can run when it holds an executor thread or one is free
Runnable(w) == w \in on_exec \/ Cardinality(on_exec) < num_exec

NoCall == [pc |-> "ready", op |-> "none", msgs |-> <<>>]
NoRet == [op |-> "none", arg |-> <<>>, result |-> Ok(0)]

\* KAFKA_BROKERS unset gives [""]; an empty Vec only comes from a hand-built config
BrokerLists == {<<>>, <<"">>, <<"host1:port">>}

\* tls_ca, tls_key and tls_cert: all empty (the client connects in PLAINTEXT),
\* or paths to files that the client library cannot load
TlsFiles == {"", "unreadable"}

\* KafkaClientConfig::new with KAFKA_ENABLED off: no brokers, no threads
DisabledConfig ==
    [is_enabled |-> FALSE, broker_list |-> <<>>, tls_files |-> "", num_threads |-> 0]
\* the enabled configurations start_threads_from_config is given
PoolConfigs == [is_enabled : {TRUE}, broker_list : BrokerLists,
                tls_files : TlsFiles, num_threads : 1..MaxThreads]
\* the configurations of a facade made by KafkaPublisher::new, which spawns nothing
FacadeConfigs ==
    {DisabledConfig} \cup
    {[is_enabled |-> TRUE, broker_list |-> <<"">>, tls_files |-> tls,
      num_threads |-> 1] : tls \in TlsFiles}

\* ClientConfig::create() answers Err, which get_kafka_producer and
\* get_kafka_consumer turn into a panic with .expect(..)
ClientCreateFails(cfg) == cfg.tls_files # ""

\* total number of messages the caller creates
MaxMsgs == MaxBurst + 1

\* the state start_threads_from_config (started) or KafkaPublisher::new leaves
Construct(cfg, started) ==
    /\ config = cfg
    /\ publish_msgs = <<>>
    /\ lock_owner = {}
    /\ poisoned = FALSE
    /\ pc = [w \in Workers |->
                IF started /\ w < cfg.num_threads THEN "spawned" ELSE "absent"]
    /\ work_vec = [w \in Workers |-> <<>>]
    /\ msg = [w \in Workers |-> <<>>]
    /\ retrying = [w \in Workers |-> FALSE]
    /\ should_shutdown = [w \in Workers |-> FALSE]
    /\ on_exec = {}
    /\ published = [w \in Workers |-> <<>>]
    /\ batch = [w \in Workers |-> <<>>]
    /\ requeued = [w \in Workers |-> 0]
    /\ caller = NoCall
    /\ ret = NoRet
    /\ enqueued = <<>>
    /\ drained = <<>>
    /\ calls = 0
    /\ next_id = 0

\* a started pool, on a runtime with an executor thread for every task; the
\* caller makes MaxCalls calls, with the Vec lengths around the length test of
\* add_messages_to_locked_work_vec
Init ==
    /\ \E cfg \in PoolConfigs : Construct(cfg, TRUE)
    /\ num_exec = config.num_threads
    /\ budget = [calls |-> MaxCalls, bursts |-> {0, SmallBurst}]

\* the same pool; the caller enqueues Vecs longer than the drain's batch
InitBurst ==
    /\ \E cfg \in PoolConfigs : Construct(cfg, TRUE)
    /\ num_exec = config.num_threads
    /\ budget = [calls |-> MaxBurstCalls, bursts |-> {MaxBurst}]

\* a facade without workers; the caller gives Vecs of every length
InitApi ==
    /\ \E cfg \in FacadeConfigs : Construct(cfg, FALSE)
    /\ num_exec = 1
    /\ budget = [calls |-> MaxApiCalls, bursts |-> 0..MaxBurst]

(* ------------------------------ workers ------------------------------- *)
\* the branch of the handler's if / else-if chain that a message takes
HandlerBranch(m) ==
    IF m.msg_type = "Shutdown" THEN "shutdown"
    ELSE IF m.msg_type = "Data" THEN "data"
    ELSE IF m.msg_type = "LogBrokerDetails" THEN "not_supported_yet"
    ELSE "unsupported"

\* the characters of the payloads that take more than one byte in UTF-8
TwoByteChars == {"é"}
ThreeByteChars == {"€"}

\* char::len_utf8 of the first character of a non-empty str
FirstCharLen(str) ==
    LET ch == SubSeq(str, 1, 1)
    IN  IF ch \in ThreeByteChars THEN 3 ELSE IF ch \in TwoByteChars THEN 2 ELSE 1

\* str::is_char_boundary(index): index is the offset of the first byte of a
\* character or the length of the str in bytes
RECURSIVE is_char_boundary(_, _)
is_char_boundary(str, index) ==
    IF index = 0 THEN TRUE
    ELSE IF Len(str) = 0 \/ FirstCharLen(str) > index THEN FALSE
    ELSE is_char_boundary(SubSeq(str, 2, Len(str)), index - FirstCharLen(str))

\* msg.payload[..10] slices bytes: it panics on a payload shorter than 10 bytes
\* and on one whose byte 10 is inside a character
PayloadSubPanics(m) == ~is_char_boundary(m.payload, PayloadSub)

\* faulty variant: only the empty list is tested, not the blank first entry
NoBrokersEmptyListOnly(cfg) == Len(cfg.broker_list) = 0

\* config.broker_list.is_empty() || config.broker_list[0].is_empty()
NoBrokers(cfg) ==
    IF Len(cfg.broker_list) = 0 THEN TRUE ELSE cfg.broker_list[1] = ""

\* what the publish of one message can come to: delivery status 0, a non-zero
\* delivery status, or an error that publish_message unwraps
PublishOutcomes == {"status_zero", "status_nonzero", "error"}

\* a panic unwinds the task: its locals are dropped, its executor thread is freed
Panic(w) ==
    /\ pc' = [pc EXCEPT ![w] = "panicked"]
    /\ work_vec' = [work_vec EXCEPT ![w] = <<>>]
    /\ msg' = [msg EXCEPT ![w] = <<>>]
    /\ retrying' = [retrying EXCEPT ![w] = FALSE]
    /\ batch' = [batch EXCEPT ![w] = <<>>]
    /\ on_exec' = on_exec \ {w}
    /\ UNCHANGED <<should_shutdown, published, requeued>>

\* after the while loop with should_shutdown unset: work_vec.clear(), loop again
ClearAndLoop(w) ==
    /\ pc' = [pc EXCEPT ![w] = "drain"]
    /\ work_vec' = [work_vec EXCEPT ![w] = <<>>]
    /\ msg' = [msg EXCEPT ![w] = <<>>]
    /\ batch' = [batch EXCEPT ![w] = <<>>]
    /\ UNCHANGED <<retrying, should_shutdown, on_exec, published, requeued>>

\* publish_message(...).await: the record is sent and the task waits for the
\* delivery, leaving its executor thread to the other tasks
SendAndAwait(w, m) ==
    /\ pc' = [pc EXCEPT ![w] = "awaiting"]
    /\ msg' = [msg EXCEPT ![w] = m]
    /\ on_exec' = on_exec \ {w}

\* the task is polled for the first time: the broker checks, then the producer
WorkerStart(w) ==
    /\ pc[w] = "spawned"
    /\ Runnable(w)
    /\ IF NoBrokers(config)
       THEN /\ pc' = [pc EXCEPT ![w] = "exited"]
            /\ on_exec' = on_exec \ {w}
       ELSE IF ClientCreateFails(config)
       THEN /\ pc' = [pc EXCEPT ![w] = "panicked"]
            /\ on_exec' = on_exec \ {w}
       ELSE /\ pc' = [pc EXCEPT ![w] = "drain"]
            /\ on_exec' = on_exec \cup {w}
    /\ UNCHANGED <<work_vec, msg, retrying, should_shutdown, published, batch,
                   requeued>>
    /\ UNCHANGED <<publish_msgs, lock_owner, poisoned>>
    /\ UNCHANGED caller_vars /\ UNCHANGED env_vars

\* faulty variant: the worker enters the drain without waiting for the Mutex
WorkerDrainLockNoWait(w) ==
    /\ pc[w] \in {"drain", "idle"}
    /\ w \in on_exec
    /\ lock_owner' = lock_owner \cup {WorkerThread(w)}
    /\ pc' = [pc EXCEPT ![w] = "drain_locked"]
    /\ should_shutdown' = [should_shutdown EXCEPT ![w] = FALSE]
    /\ UNCHANGED <<work_vec, msg, retrying, on_exec, published, batch, requeued>>
    /\ UNCHANGED <<publish_msgs, poisoned>>
    /\ UNCHANGED caller_vars /\ UNCHANGED env_vars

\* faulty variant: a worker that has left its loop takes the lock and drains again
WorkerDrainLockAfterExit(w) ==
    /\ pc[w] \in {"drain", "idle", "done"}
    /\ w \in on_exec \/ pc[w] = "done"
    /\ Unlocked
    /\ lock_owner' = {WorkerThread(w)}
    /\ pc' = [pc EXCEPT ![w] = "drain_locked"]
    /\ should_shutdown' = [should_shutdown EXCEPT ![w] = FALSE]
    /\ UNCHANGED <<work_vec, msg, retrying, on_exec, published, batch, requeued>>
    /\ UNCHANGED <<publish_msgs, poisoned>>
    /\ UNCHANGED caller_vars /\ UNCHANGED env_vars

\* loop top (first, after a batch, or when the idle sleep returns):
\* should_shutdown = false; drain_messages_from_locked_work_vec locks
WorkerDrainLock(w) ==
    /\ pc[w] \in {"drain", "idle"}
    /\ w \in on_exec
    /\ Unlocked
    /\ lock_owner' = {WorkerThread(w)}
    /\ pc' = [pc EXCEPT ![w] = "drain_locked"]
    /\ should_shutdown' = [should_shutdown EXCEPT ![w] = FALSE]
    /\ UNCHANGED <<work_vec, msg, retrying, on_exec, published, batch, requeued>>
    /\ UNCHANGED <<publish_msgs, poisoned>>
    /\ UNCHANGED caller_vars /\ UNCHANGED env_vars

\* faulty variant: a worker whose drain returns nothing ends
WorkerDrainEndsOnEmpty(w) ==
    /\ pc[w] = "drain_locked"
    /\ w \in on_exec
    /\ lock_owner = {WorkerThread(w)}
    /\ work_vec' = [work_vec EXCEPT ![w] = Drained(publish_msgs, poisoned)]
    /\ batch' = [batch EXCEPT ![w] = Drained(publish_msgs, poisoned)]
    /\ publish_msgs' = AfterDrain(publish_msgs, poisoned)
    /\ lock_owner' = {}
    /\ pc' = [pc EXCEPT ![w] =
                IF Len(work_vec'[w]) = 0 THEN "done" ELSE "process"]
    /\ on_exec' = IF Len(work_vec'[w]) = 0 THEN on_exec \ {w} ELSE on_exec
    /\ UNCHANGED <<msg, retrying, should_shutdown, published, requeued>>
    /\ UNCHANGED poisoned
    /\ UNCHANGED caller_vars /\ UNCHANGED env_vars

\* faulty variant: the guard of the drain is kept while the batch is processed
WorkerDrainKeepsLock(w) ==
    /\ pc[w] = "drain_locked"
    /\ w \in on_exec
    /\ lock_owner = {WorkerThread(w)}
    /\ work_vec' = [work_vec EXCEPT ![w] = Drained(publish_msgs, poisoned)]
    /\ batch' = [batch EXCEPT ![w] = Drained(publish_msgs, poisoned)]
    /\ publish_msgs' = AfterDrain(publish_msgs, poisoned)
    /\ pc' = [pc EXCEPT ![w] =
                IF Len(work_vec'[w]) = 0 THEN "idle" ELSE "process"]
    /\ UNCHANGED <<msg, retrying, should_shutdown, on_exec, published, requeued>>
    /\ UNCHANGED <<poisoned, lock_owner>>
    /\ UNCHANGED caller_vars /\ UNCHANGED env_vars

\* the drain under the lock, the unlock, and the test work_vec.is_empty():
\* the idle sleep, or the while loop over the batch
WorkerDrain(w) ==
    /\ pc[w] = "drain_locked"
    /\ w \in on_exec
    /\ lock_owner = {WorkerThread(w)}
    /\ work_vec' = [work_vec EXCEPT ![w] = Drained(publish_msgs, poisoned)]
    /\ batch' = [batch EXCEPT ![w] = Drained(publish_msgs, poisoned)]
    /\ publish_msgs' = AfterDrain(publish_msgs, poisoned)
    /\ lock_owner' = {}
    /\ pc' = [pc EXCEPT ![w] =
                IF Len(work_vec'[w]) = 0 THEN "idle" ELSE "process"]
    /\ UNCHANGED <<msg, retrying, should_shutdown, on_exec, published, requeued>>
    /\ UNCHANGED poisoned
    /\ UNCHANGED caller_vars /\ UNCHANGED env_vars

\* faulty variant: a message of a kind that is not handled is skipped and the
\* worker goes on with the rest of its batch
WorkerTakeSkipsUnhandled(w) ==
    /\ pc[w] = "process"
    /\ w \in on_exec
    /\ IF Len(work_vec[w]) = 0
       THEN ClearAndLoop(w)
       ELSE LET m == Head(work_vec[w])
                branch == HandlerBranch(m)
            IN  /\ branch # "shutdown"
                /\ IF branch = "data"
                   THEN IF PayloadSubPanics(m)
                        THEN Panic(w)
                        ELSE /\ work_vec' = [work_vec EXCEPT ![w] = Tail(@)]
                             /\ SendAndAwait(w, m)
                             /\ UNCHANGED <<retrying, should_shutdown, published,
                                            batch, requeued>>
                   ELSE /\ work_vec' = [work_vec EXCEPT ![w] = Tail(@)]
                        /\ UNCHANGED <<pc, msg, retrying, should_shutdown, on_exec,
                                       published, batch, requeued>>
    /\ UNCHANGED <<publish_msgs, lock_owner, poisoned>>
    /\ UNCHANGED caller_vars /\ UNCHANGED env_vars

\* while !work_vec.is_empty() { let msg = work_vec.remove(0); ... } for a message
\* that is not a Shutdown, and the code after the loop when the loop ends
WorkerTake(w) ==
    /\ pc[w] = "process"
    /\ w \in on_exec
    /\ IF Len(work_vec[w]) = 0
       THEN ClearAndLoop(w)
       ELSE LET m == Head(work_vec[w])
                branch == HandlerBranch(m)
            IN  /\ branch # "shutdown"
                /\ IF branch = "data"
                   THEN IF PayloadSubPanics(m)
                        THEN Panic(w)
                        ELSE /\ work_vec' = [work_vec EXCEPT ![w] = Tail(@)]
                             /\ SendAndAwait(w, m)
                             /\ UNCHANGED <<retrying, should_shutdown, published,
                                            batch, requeued>>
                   ELSE \* "not supported yet" and "unsupported": break
                        ClearAndLoop(w)
    /\ UNCHANGED <<publish_msgs, lock_owner, poisoned>>
    /\ UNCHANGED caller_vars /\ UNCHANGED env_vars

\* the Shutdown branch up to the lock of add_messages_to_locked_work_vec:
\* work_vec.remove(0), should_shutdown = true, vec![msg.clone()]
WorkerRequeueLock(w) ==
    /\ pc[w] = "process"
    /\ w \in on_exec
    /\ Len(work_vec[w]) > 0
    /\ HandlerBranch(Head(work_vec[w])) = "shutdown"
    /\ Unlocked
    /\ lock_owner' = {WorkerThread(w)}
    /\ work_vec' = [work_vec EXCEPT ![w] = Tail(@)]
    /\ msg' = [msg EXCEPT ![w] = Head(work_vec[w])]
    /\ should_shutdown' = [should_shutdown EXCEPT ![w] = TRUE]
    /\ pc' = [pc EXCEPT ![w] = "requeue_locked"]
    /\ UNCHANGED <<retrying, on_exec, published, batch, requeued>>
    /\ UNCHANGED <<publish_msgs, poisoned>>
    /\ UNCHANGED caller_vars /\ UNCHANGED env_vars

\* faulty variant: after the requeue the worker clears its batch and drains again
WorkerRequeueNoExit(w) ==
    /\ pc[w] = "requeue_locked"
    /\ w \in on_exec
    /\ lock_owner = {WorkerThread(w)}
    /\ publish_msgs' = AfterAdd(publish_msgs, <<msg[w]>>, poisoned)
    /\ requeued' = [requeued EXCEPT ![w] = IF poisoned THEN @ ELSE @ + 1]
    /\ lock_owner' = {}
    /\ pc' = [pc EXCEPT ![w] = "drain"]
    /\ work_vec' = [work_vec EXCEPT ![w] = <<>>]
    /\ msg' = [msg EXCEPT ![w] = <<>>]
    /\ batch' = [batch EXCEPT ![w] = <<>>]
    /\ UNCHANGED <<retrying, should_shutdown, on_exec, published>>
    /\ UNCHANGED poisoned
    /\ UNCHANGED caller_vars /\ UNCHANGED env_vars

\* faulty variant: the worker puts the rest of its batch back with the Shutdown
WorkerRequeueWithRest(w) ==
    /\ pc[w] = "requeue_locked"
    /\ w \in on_exec
    /\ lock_owner = {WorkerThread(w)}
    /\ publish_msgs' = AfterAdd(publish_msgs, <<msg[w]>> \o work_vec[w], poisoned)
    /\ requeued' = [requeued EXCEPT ![w] = IF poisoned THEN @ ELSE @ + 1]
    /\ lock_owner' = {}
    /\ pc' = [pc EXCEPT ![w] = "done"]
    /\ on_exec' = on_exec \ {w}
    /\ msg' = [msg EXCEPT ![w] = <<>>]
    /\ work_vec' = [work_vec EXCEPT ![w] = <<>>]
    /\ UNCHANGED <<retrying, should_shutdown, published, batch>>
    /\ UNCHANGED poisoned
    /\ UNCHANGED caller_vars /\ UNCHANGED env_vars

\* faulty variant: the worker requeues two copies of the Shutdown message
WorkerRequeueTwice(w) ==
    /\ pc[w] = "requeue_locked"
    /\ w \in on_exec
    /\ lock_owner = {WorkerThread(w)}
    /\ publish_msgs' = AfterAdd(publish_msgs, <<msg[w], msg[w]>>, poisoned)
    /\ requeued' = [requeued EXCEPT ![w] = IF poisoned THEN @ ELSE @ + 1]
    /\ lock_owner' = {}
    /\ pc' = [pc EXCEPT ![w] = "done"]
    /\ on_exec' = on_exec \ {w}
    /\ msg' = [msg EXCEPT ![w] = <<>>]
    /\ UNCHANGED <<work_vec, retrying, should_shutdown, published, batch>>
    /\ UNCHANGED poisoned
    /\ UNCHANGED caller_vars /\ UNCHANGED env_vars

\* faulty variant: the last running worker ends without requeueing the Shutdown
WorkerRequeueUnlessLast(w) ==
    /\ pc[w] = "requeue_locked"
    /\ w \in on_exec
    /\ lock_owner = {WorkerThread(w)}
    /\ LET last == \A v \in Workers \ {w} :
                      pc[v] \in {"absent", "exited", "done", "panicked"}
       IN  /\ publish_msgs' = IF last THEN publish_msgs
                              ELSE AfterAdd(publish_msgs, <<msg[w]>>, poisoned)
           /\ requeued' = [requeued EXCEPT ![w] =
                              IF poisoned \/ last THEN @ ELSE @ + 1]
    /\ lock_owner' = {}
    /\ pc' = [pc EXCEPT ![w] = "done"]
    /\ on_exec' = on_exec \ {w}
    /\ msg' = [msg EXCEPT ![w] = <<>>]
    /\ UNCHANGED <<work_vec, retrying, should_shutdown, published, batch>>
    /\ UNCHANGED poisoned
    /\ UNCHANGED caller_vars /\ UNCHANGED env_vars

\* the append under the lock, the unlock, the break out of the while loop and,
\* should_shutdown being set, the break out of the main loop
WorkerRequeue(w) ==
    /\ pc[w] = "requeue_locked"
    /\ w \in on_exec
    /\ lock_owner = {WorkerThread(w)}
    /\ publish_msgs' = AfterAdd(publish_msgs, <<msg[w]>>, poisoned)
    /\ requeued' = [requeued EXCEPT ![w] = IF poisoned THEN @ ELSE @ + 1]
    /\ lock_owner' = {}
    /\ IF should_shutdown[w]
       THEN /\ pc' = [pc EXCEPT ![w] = "done"]
            /\ on_exec' = on_exec \ {w}
            /\ msg' = [msg EXCEPT ![w] = <<>>]
            /\ UNCHANGED <<work_vec, retrying, should_shutdown, published, batch>>
       ELSE /\ ClearAndLoop(w)
            /\ UNCHANGED requeued
    /\ UNCHANGED poisoned
    /\ UNCHANGED caller_vars /\ UNCHANGED env_vars

\* faulty variant: a non-zero status is logged and the worker goes on to the next
\* message of the batch
WorkerDeliveryNoRetry(w, outcome) ==
    /\ pc[w] = "awaiting"
    /\ Runnable(w)
    /\ CASE outcome = "status_zero" ->
              /\ published' = [published EXCEPT ![w] = Append(@, msg[w])]
              /\ pc' = [pc EXCEPT ![w] = "process"]
              /\ msg' = [msg EXCEPT ![w] = <<>>]
              /\ retrying' = [retrying EXCEPT ![w] = FALSE]
              /\ on_exec' = on_exec \cup {w}
              /\ UNCHANGED <<work_vec, should_shutdown, batch, requeued>>
         [] outcome = "status_nonzero" ->
              /\ pc' = [pc EXCEPT ![w] = "process"]
              /\ msg' = [msg EXCEPT ![w] = <<>>]
              /\ on_exec' = on_exec \cup {w}
              /\ UNCHANGED <<work_vec, retrying, should_shutdown, published, batch,
                             requeued>>
         [] OTHER -> Panic(w)
    /\ UNCHANGED <<publish_msgs, lock_owner, poisoned>>
    /\ UNCHANGED caller_vars /\ UNCHANGED env_vars

\* the delivery future completes and the task is polled again
WorkerDelivery(w, outcome) ==
    /\ pc[w] = "awaiting"
    /\ Runnable(w)
    /\ CASE outcome = "status_zero" ->
              /\ published' = [published EXCEPT ![w] = Append(@, msg[w])]
              /\ pc' = [pc EXCEPT ![w] = "process"]
              /\ msg' = [msg EXCEPT ![w] = <<>>]
              /\ retrying' = [retrying EXCEPT ![w] = FALSE]
              /\ on_exec' = on_exec \cup {w}
              /\ UNCHANGED <<work_vec, should_shutdown, batch, requeued>>
         [] outcome = "status_nonzero" ->
              /\ pc' = [pc EXCEPT ![w] = "retry_sleep"]
              /\ retrying' = [retrying EXCEPT ![w] = TRUE]
              /\ on_exec' = on_exec \cup {w}
              /\ UNCHANGED <<work_vec, msg, should_shutdown, published, batch,
                             requeued>>
         [] OTHER -> Panic(w)
    /\ UNCHANGED <<publish_msgs, lock_owner, poisoned>>
    /\ UNCHANGED caller_vars /\ UNCHANGED env_vars

\* std::thread::sleep(retry_sleep_sec) returns; the retry loop publishes again
WorkerRetrySleep(w) ==
    /\ pc[w] = "retry_sleep"
    /\ w \in on_exec
    /\ SendAndAwait(w, msg[w])
    /\ UNCHANGED <<work_vec, retrying, should_shutdown, published, batch, requeued>>
    /\ UNCHANGED <<publish_msgs, lock_owner, poisoned>>
    /\ UNCHANGED caller_vars /\ UNCHANGED env_vars

(* ------------------------------- caller ------------------------------- *)
\* a call that returns without touching the Mutex
ReturnNow(op, msgs, result) ==
    /\ ret' = [op |-> op, arg |-> msgs, result |-> result]
    /\ UNCHANGED <<caller, lock_owner>>

\* faulty variant: the length test is missing, an empty Vec is appended under the lock
BeginAddUnchecked(op, msgs) ==
    /\ Unlocked
    /\ lock_owner' = {CallerThread}
    /\ caller' = [pc |-> "add_locked", op |-> op, msgs |-> msgs]
    /\ UNCHANGED ret

\* add_messages_to_locked_work_vec up to lockable_work_vec.lock()
BeginAdd(op, msgs) ==
    IF Len(msgs) = 0
    THEN ReturnNow(op, msgs, AddResult(publish_msgs, msgs, poisoned))
    ELSE /\ Unlocked
         /\ lock_owner' = {CallerThread}
         /\ caller' = [pc |-> "add_locked", op |-> op, msgs |-> msgs]
         /\ UNCHANGED ret

\* drain_messages_from_locked_work_vec up to lockable_work_vec.lock()
BeginDrain(op) ==
    /\ Unlocked
    /\ lock_owner' = {CallerThread}
    /\ caller' = [pc |-> "drain_locked", op |-> op, msgs |-> <<>>]
    /\ UNCHANGED ret

\* the caller is between calls and has calls and messages left
CanCall(n) ==
    /\ caller.pc = "ready"
    /\ calls < budget.calls
    /\ next_id + n <= MaxMsgs

CallFrame(n) ==
    /\ calls' = calls + 1
    /\ next_id' = next_id + n
    /\ UNCHANGED <<publish_msgs, poisoned, enqueued, drained>>
    /\ UNCHANGED worker_vars /\ UNCHANGED env_vars

\* the api function called directly on publisher.publish_msgs, as the example does
add_messages_to_locked_work_vec(msgs) ==
    /\ CanCall(Len(msgs))
    /\ BeginAdd("enqueue", msgs)
    /\ CallFrame(Len(msgs))

drain_messages_from_locked_work_vec ==
    /\ CanCall(0)
    /\ BeginDrain("drain")
    /\ CallFrame(0)

\* KafkaPublisher::add_data_msg
add_data_msg(topic, key, headers, payload) ==
    /\ CanCall(1)
    /\ IF config.is_enabled
       THEN BeginAdd("add_data_msg",
                     <<build_kafka_publish_message("Data", topic, key, headers,
                                                   payload)>>)
       ELSE ReturnNow("add_data_msg", <<>>, Ok(0))
    /\ CallFrame(1)

\* KafkaPublisher::add_msg
add_msg(m) ==
    /\ CanCall(1)
    /\ IF config.is_enabled
       THEN BeginAdd("add_msg", <<m>>)
       ELSE ReturnNow("add_msg", <<m>>, Ok(0))
    /\ CallFrame(1)

\* faulty variant: add_msgs does not look at config.is_enabled
add_msgs_unguarded(msgs) ==
    /\ CanCall(Len(msgs))
    /\ BeginAdd("add_msgs", msgs)
    /\ CallFrame(Len(msgs))

\* KafkaPublisher::add_msgs
add_msgs(msgs) ==
    /\ CanCall(Len(msgs))
    /\ IF config.is_enabled
       THEN BeginAdd("add_msgs", msgs)
       ELSE ReturnNow("add_msgs", msgs, Ok(0))
    /\ CallFrame(Len(msgs))

\* KafkaPublisher::drain_msgs
drain_msgs ==
    /\ CanCall(0)
    /\ IF config.is_enabled
       THEN BeginDrain("drain_msgs")
       ELSE ReturnNow("drain_msgs", <<>>, Ok(<<>>))
    /\ CallFrame(0)

\* faulty variant: shutdown enqueues one Shutdown message per configured thread
shutdown_per_thread ==
    /\ CanCall(0)
    /\ IF config.is_enabled
       THEN BeginAdd("shutdown", [i \in 1..config.num_threads |-> ShutdownMsg])
       ELSE ReturnNow("shutdown", <<>>, Ok("kafka not enabled"))
    /\ CallFrame(0)

\* faulty variant: shutdown does not look at config.is_enabled
shutdown_unguarded ==
    /\ CanCall(0)
    /\ BeginAdd("shutdown", <<ShutdownMsg>>)
    /\ CallFrame(0)

\* KafkaPublisher::shutdown
shutdown ==
    /\ CanCall(0)
    /\ IF config.is_enabled
       THEN BeginAdd("shutdown", <<ShutdownMsg>>)
       ELSE ReturnNow("shutdown", <<>>, Ok("kafka not enabled"))
    /\ CallFrame(0)

\* faulty variant: shutdown reports success only once every worker has stopped
ShutdownResultWhenStopped(r) ==
    IF r.ok /\ \A w \in Workers : pc[w] \in {"absent", "exited", "done", "panicked"}
    THEN Ok("shutdown started")
    ELSE IF r.ok THEN Err("workers still running") ELSE r

\* what shutdown makes of the result of its enqueue
ShutdownResult(r) == IF r.ok THEN Ok("shutdown started") ELSE r

\* faulty variant: the enqueue returns with the guard of the Mutex still alive
CallerAddKeepsLock ==
    /\ caller.pc = "add_locked"
    /\ lock_owner = {CallerThread}
    /\ publish_msgs' = AfterAdd(publish_msgs, caller.msgs, poisoned)
    /\ LET r == AddResult(publish_msgs, caller.msgs, poisoned)
       IN  ret' = [op |-> caller.op, arg |-> caller.msgs,
                   result |-> IF caller.op = "shutdown"
                              THEN ShutdownResult(r) ELSE r]
    /\ enqueued' = IF poisoned THEN enqueued ELSE enqueued \o caller.msgs
    /\ caller' = NoCall
    /\ UNCHANGED <<calls, next_id, poisoned, drained, lock_owner>>
    /\ UNCHANGED worker_vars /\ UNCHANGED env_vars

\* the append under the lock, the unlock and the return
CallerAdd ==
    /\ caller.pc = "add_locked"
    /\ lock_owner = {CallerThread}
    /\ publish_msgs' = AfterAdd(publish_msgs, caller.msgs, poisoned)
    /\ lock_owner' = {}
    /\ LET r == AddResult(publish_msgs, caller.msgs, poisoned)
       IN  ret' = [op |-> caller.op, arg |-> caller.msgs,
                   result |-> IF caller.op = "shutdown"
                              THEN ShutdownResult(r) ELSE r]
    /\ enqueued' = IF poisoned THEN enqueued ELSE enqueued \o caller.msgs
    /\ caller' = NoCall
    /\ UNCHANGED <<calls, next_id, poisoned, drained>>
    /\ UNCHANGED worker_vars /\ UNCHANGED env_vars

\* the drain under the lock, the unlock and the return
CallerDrain ==
    /\ caller.pc = "drain_locked"
    /\ lock_owner = {CallerThread}
    /\ publish_msgs' = AfterDrain(publish_msgs, poisoned)
    /\ lock_owner' = {}
    /\ ret' = [op |-> caller.op, arg |-> <<>>,
               result |-> Ok(Drained(publish_msgs, poisoned))]
    /\ drained' = drained \o Drained(publish_msgs, poisoned)
    /\ caller' = NoCall
    /\ UNCHANGED <<calls, next_id, poisoned, enqueued>>
    /\ UNCHANGED worker_vars /\ UNCHANGED env_vars

(* ------------------------------ the pool ------------------------------ *)
\* a caller-built message of each kind, with a payload the worker can log
CallerMsg(kind) ==
    build_kafka_publish_message(kind, "testing", "testing", None,
                                LongPayload(next_id))

\* one step of worker w, the broker answering a publish with one of `outcomes`
WorkerRun(w, outcomes) ==
    \/ WorkerStart(w)
    \/ WorkerDrainLock(w)
    \/ WorkerDrain(w)
    \/ WorkerTake(w)
    \/ WorkerRequeueLock(w)
    \/ WorkerRequeue(w)
    \/ \E outcome \in outcomes : WorkerDelivery(w, outcome)
    \/ WorkerRetrySleep(w)

WorkerStep(w) == WorkerRun(w, PublishOutcomes)

\* calls of the api functions on publisher.publish_msgs
ApiStep ==
    \/ \E n \in budget.bursts :
          add_messages_to_locked_work_vec(DataBurst(next_id, n))
    \/ drain_messages_from_locked_work_vec

\* the completion of the call in progress
CallerReturn ==
    \/ CallerAdd
    \/ CallerDrain

\* calls of the facade; a Data message is given to add_data_msg, which builds
\* the message that add_msg would be given
CallerStep ==
    \/ \E p \in {LongPayload(next_id), ShortPayload(next_id)} :
          add_data_msg("testing", "testing", None, p)
    \/ \E kind \in MsgTypes \ {"Data"} : add_msg(CallerMsg(kind))
    \/ \E n \in budget.bursts : add_msgs(DataBurst(next_id, n))
    \/ drain_msgs
    \/ shutdown

\* the calls of the example program and of its check: add a Vec, drain, shut down
BurstStep ==
    \/ \E n \in budget.bursts : add_msgs(DataBurst(next_id, n))
    \/ drain_msgs
    \/ shutdown

Next ==
    \/ \E w \in Workers : WorkerStep(w)
    \/ CallerStep
    \/ CallerReturn

Spec == Init /\ [][Next]_vars

NextBurst ==
    \/ \E w \in Workers : WorkerStep(w)
    \/ BurstStep
    \/ CallerReturn

SpecBurst == InitBurst /\ [][NextBurst]_vars

\* the pool when every publish returns a delivery status, on fair threads: every
\* worker that can step does, a publish that is retried without end returns
\* status 0 at some attempt, and the caller's call in progress returns
StatusOutcomes == {"status_zero", "status_nonzero"}

EnqueueStep ==
    \/ \E p \in {LongPayload(next_id), ShortPayload(next_id)} :
          add_data_msg("testing", "testing", None, p)
    \/ \E kind \in MsgTypes : add_msg(CallerMsg(kind))
    \/ \E n \in budget.bursts : add_msgs(DataBurst(next_id, n))
    \/ shutdown

NextLive ==
    \/ \E w \in Workers : WorkerRun(w, StatusOutcomes)
    \/ EnqueueStep
    \/ CallerAdd

\* every worker task keeps being scheduled; a worker that keeps asking for the
\* lock gets it, since the holders release it after one drain or append and the
\* idle workers sleep between two drains; every publish eventually returns 0
Fairness ==
    /\ \A w \in Workers : WF_vars(WorkerRun(w, StatusOutcomes))
    /\ \A w \in Workers : SF_vars(WorkerDrainLock(w))
    /\ \A w \in Workers : SF_vars(WorkerRequeueLock(w))
    /\ \A w \in Workers : SF_vars(WorkerDelivery(w, "status_zero"))
    /\ WF_vars(CallerAdd)

SpecLive == Init /\ [][NextLive]_vars /\ Fairness

\* publish_msgs is a public field: a thread of the program that uses the crate
\* locks it and panics with the guard in hand, which poisons the Mutex for good
PoisonLock ==
    /\ Unlocked
    /\ ~poisoned
    /\ poisoned' = TRUE
    /\ UNCHANGED <<publish_msgs, lock_owner>>
    /\ UNCHANGED worker_vars /\ UNCHANGED caller_vars /\ UNCHANGED env_vars

\* the pool whose Mutex can be poisoned at any moment; the caller adds Vecs,
\* drains and shuts down
InitPoison ==
    /\ \E cfg \in PoolConfigs : Construct(cfg, TRUE)
    /\ num_exec = config.num_threads
    /\ budget = [calls |-> MaxCalls, bursts |-> {SmallBurst}]

NextPoison ==
    \/ \E w \in Workers : WorkerStep(w)
    \/ BurstStep
    \/ CallerReturn
    \/ PoisonLock

SpecPoison == InitPoison /\ [][NextPoison]_vars

\* the messages whose representations are compared: every kind, with and
\* without headers, payloads that differ; a HashMap of two entries iterates in
\* either order, which its RandomState decides map by map
FormatHeaders ==
    {None, Some(<<<<"k", "v">>>>), Some(<<<<"a", "1">>, <<"b", "2">>>>),
     Some(<<<<"b", "2">>, <<"a", "1">>>>)}
FormatPayloads == {"", "test message 0", "test message 1", " payload=x"}
FormatMsgs ==
    {build_kafka_publish_message(kind, topic, "testing", headers, payload) :
        kind \in MsgTypes, topic \in {"", "testing"}, headers \in FormatHeaders,
        payload \in FormatPayloads}

\* format!("{}", m) and format!("{:?}", m) of a message the caller has built
format_display(m) ==
    /\ CanCall(0)
    /\ ReturnNow("display", <<m>>, Ok(Display(m)))
    /\ CallFrame(0)

format_debug(m) ==
    /\ CanCall(0)
    /\ ReturnNow("debug", <<m>>, Ok(Debug(m)))
    /\ CallFrame(0)

\* a caller that builds messages and prints them, one after the other
InitFormat ==
    /\ Construct(DisabledConfig, FALSE)
    /\ num_exec = 1
    /\ budget = [calls |-> MaxCalls, bursts |-> {0}]

NextFormat ==
    \/ \E m \in FormatMsgs : format_display(m)
    \/ \E m \in FormatMsgs : format_debug(m)

SpecFormat == InitFormat /\ [][NextFormat]_vars

\* the pool on a runtime of any number of executor threads, down to one for all
\* the worker tasks
InitExec ==
    /\ \E cfg \in PoolConfigs : Construct(cfg, TRUE)
    /\ num_exec \in 1..config.num_threads
    /\ budget = [calls |-> MaxCalls, bursts |-> {0, SmallBurst}]

SpecExec == InitExec /\ [][Next]_vars

\* what a publish that fails for good returns: a non-zero status, or an error
FailingOutcomes == {"status_nonzero", "error"}

\* the pool against a cluster on which no publish ever returns status 0
NextStuck ==
    \/ \E w \in Workers : WorkerRun(w, FailingOutcomes)
    \/ CallerStep
    \/ CallerReturn

SpecStuck == Init /\ [][NextStuck]_vars

\* the pool, enabled or not, whose Mutex can be poisoned at any moment; the
\* caller uses every method of the facade
InitEnqueue ==
    /\ \E cfg \in PoolConfigs \cup {DisabledConfig} : Construct(cfg, TRUE)
    /\ num_exec = config.num_threads
    /\ budget = [calls |-> MaxCalls, bursts |-> {0, SmallBurst}]

\* calls of the enqueue methods of the facade
FacadeEnqueue ==
    \/ add_data_msg("testing", "testing", None, LongPayload(next_id))
    \/ \E kind \in {"Shutdown", "LogBrokerTopicDetails"} : add_msg(CallerMsg(kind))
    \/ \E n \in budget.bursts : add_msgs(DataBurst(next_id, n))
    \/ shutdown

NextEnqueue ==
    \/ \E w \in Workers : WorkerStep(w)
    \/ FacadeEnqueue
    \/ CallerAdd
    \/ PoisonLock

SpecEnqueue == InitEnqueue /\ [][NextEnqueue]_vars

\* a caller that enqueues Data messages of at least 10 payload bytes, and shuts
\* down
GracefulStep ==
    \/ \E p \in {LongPayload(next_id), SplitPayload(next_id)} :
          add_data_msg("testing", "testing", None, p)
    \/ \E n \in budget.bursts : add_msgs(DataBurst(next_id, n))
    \/ shutdown

NextGraceful ==
    \/ \E w \in Workers : WorkerRun(w, StatusOutcomes)
    \/ GracefulStep
    \/ CallerAdd

\* the pool under the fair scheduling of SpecLive, with that caller
SpecGraceful == Init /\ [][NextGraceful]_vars /\ Fairness

\* a thread that holds the lock is running the append or the drain: it is neither
\* at an await nor asleep, and goes on to the end of its call
LockFairness ==
    /\ \A w \in Workers : WF_vars(WorkerDrain(w)) /\ WF_vars(WorkerRequeue(w))
    /\ WF_vars(CallerReturn)

\* the pool whose Mutex can be poisoned at any moment, its lock holders running
SpecLock == InitPoison /\ [][NextPoison]_vars /\ LockFairness

(* ------------------------------ metadata ------------------------------ *)
\* what the cluster answers to fetch_watermarks for one partition: the low and
\* high offsets, or an error
WatermarkAnswers ==
    {[ok |-> TRUE, low |-> 0, high |-> 42], [ok |-> TRUE, low |-> 5, high |-> 7],
     [ok |-> FALSE, low |-> 0, high |-> 0]}

\* the sequences of at most n elements of S
SeqUpTo(S, n) == UNION {[1..k -> S] : k \in 0..n}

\* metadata.topics(): each topic with the watermark answers of its partitions
ClusterTopics ==
    SeqUpTo([partitions : SeqUpTo(WatermarkAnswers, MaxPartitions)], MaxTopics)

\* consumer.fetch_watermarks(..).unwrap_or((-1, -1))
fetch_watermarks(partition) ==
    IF partition.ok THEN <<partition.low, partition.high>> ELSE <<-1, -1>>

\* the loop over found_topic.partitions(): message_count += high - low
RECURSIVE CountPartitions(_, _)
CountPartitions(partitions, message_count) ==
    IF Len(partitions) = 0 THEN message_count
    ELSE LET low_high == fetch_watermarks(Head(partitions))
         IN  CountPartitions(Tail(partitions),
                             message_count + (low_high[2] - low_high[1]))

\* the loop over metadata.topics(): the message offset logged for each topic;
\* message_count is declared before the loop and carried from topic to topic
RECURSIVE CountTopics(_, _)
CountTopics(topics, message_count) ==
    IF Len(topics) = 0 THEN <<>>
    ELSE LET counted == CountPartitions(Head(topics).partitions, message_count)
         IN  <<counted>> \o CountTopics(Tail(topics), counted)

\* what consumer.fetch_metadata(topic, timeout) comes to: the metadata with its
\* topics, or an error when the cluster does not answer
MetadataAnswers ==
    {[ok |-> TRUE, topics |-> topics] : topics \in ClusterTopics}
        \cup {[ok |-> FALSE, topics |-> <<>>]}

\* get_kafka_metadata: .expect("Failed to fetch metadata") panics on an error;
\* otherwise the message counts it reports, topic by topic
get_kafka_metadata(fetch_offsets, metadata) ==
    IF ~metadata.ok THEN [panicked |-> TRUE, counts |-> <<>>]
    ELSE [panicked |-> FALSE,
          counts |-> IF fetch_offsets THEN CountTopics(metadata.topics, 0) ELSE <<>>]

\* a panic in the caller's own task: the call never returns
CallerPanics(op) ==
    /\ caller' = [pc |-> "panicked", op |-> op, msgs |-> <<>>]
    /\ UNCHANGED <<ret, lock_owner>>

\* KafkaPublisher::get_metadata against a cluster that answers with `metadata`:
\* the consumer is created first, with .expect("Consumer creation error")
get_metadata(fetch_offsets, metadata) ==
    /\ CanCall(0)
    /\ IF ~config.is_enabled
       THEN ReturnNow("get_metadata", <<fetch_offsets, metadata.topics>>, Ok(<<>>))
       ELSE IF ClientCreateFails(config)
       THEN CallerPanics("get_metadata")
       ELSE LET done == get_kafka_metadata(fetch_offsets, metadata)
            IN  IF done.panicked
                THEN CallerPanics("get_metadata")
                ELSE ReturnNow("get_metadata", <<fetch_offsets, metadata.topics>>,
                               Ok(done.counts))
    /\ CallFrame(0)

\* a facade whose caller asks for the metadata once
InitMetadata ==
    /\ \E cfg \in FacadeConfigs : Construct(cfg, FALSE)
    /\ num_exec = 1
    /\ budget = [calls |-> 1, bursts |-> {0}]

NextMetadata ==
    \E fetch_offsets \in BOOLEAN, metadata \in MetadataAnswers :
        get_metadata(fetch_offsets, metadata)

SpecMetadata == InitMetadata /\ [][NextMetadata]_vars

\* a facade without workers: only the caller acts on the queue
NextApi ==
    \/ ApiStep
    \/ CallerStep
    \/ CallerReturn

SpecApi == InitApi /\ [][NextApi]_vars

(* ------------------------------ properties ---------------------------- *)
Min(a, b) == IF a < b THEN a ELSE b
Range(f) == {f[i] : i \in DOMAIN f}
Last(q) == q[Len(q)]
ShutdownCount(q) == Cardinality({i \in DOMAIN q : q[i].msg_type = "Shutdown"})

\* the step in which the caller's drain (api function or drain_msgs) returns
DrainReturns == caller.pc = "drain_locked" /\ caller'.pc = "ready"
\* the step in which the caller's enqueue (of any facade method) returns
AddReturns == caller.pc = "add_locked" /\ caller'.pc = "ready"
\* the step in which the caller starts a call, and the method it calls
CallStarts == calls' = calls + 1
CalledOp == IF caller'.pc = "ready" THEN ret'.op ELSE caller'.op
CalledArg == IF caller'.pc = "ready" THEN ret'.arg ELSE caller'.msgs

\* C1: one drain of a queue of n >= 1 messages returns exactly its first
\* min(10, n) messages in insertion order and leaves exactly the other
\* n - min(10, n) messages, in order.
C1_DrainTakesFront ==
    [][(DrainReturns /\ Len(publish_msgs) >= 1) =>
          LET n == Len(publish_msgs)
              k == Min(10, n)
          IN  /\ ret'.result = Ok(SubSeq(publish_msgs, 1, k))
              /\ Len(publish_msgs') = n - k
              /\ publish_msgs' = SubSeq(publish_msgs, k + 1, n)]_vars

\* a drain of a queue of more than 10 messages has returned 10 and left the rest
C1_Witness ==
    /\ ret.op = "drain"
    /\ Len(ret.result.val) = 10
    /\ Len(publish_msgs) >= 1

\* C2: a successful enqueue of a non-empty msgs on a queue q leaves q followed by
\* msgs, in order, and returns Ok(len(q) + len(msgs)).
C2_EnqueueAppends ==
    [][(AddReturns /\ caller.op # "shutdown" /\ ret'.result.ok) =>
          /\ Len(caller.msgs) >= 1
          /\ publish_msgs' = publish_msgs \o caller.msgs
          /\ ret'.result = Ok(Len(publish_msgs) + Len(caller.msgs))]_vars

\* an enqueue of several messages onto a non-empty queue has returned the total
C2_Witness ==
    /\ ret.op = "enqueue"
    /\ Len(ret.arg) >= 2
    /\ ret.result.ok
    /\ ret.result.val > Len(ret.arg)
    /\ Len(publish_msgs) = ret.result.val
    /\ SubSeq(publish_msgs, Len(publish_msgs) - Len(ret.arg) + 1,
              Len(publish_msgs)) = ret.arg

\* C3: an enqueue of an empty Vec returns an error in every state of the queue
\* and of the workers, leaves the queue unchanged and does not take the lock.
C3_EmptyEnqueueFails ==
    [][(CallStarts /\ CalledOp \in {"enqueue", "add_msgs"} /\ Len(CalledArg) = 0
        /\ (CalledOp = "enqueue" \/ config.is_enabled)) =>
          /\ caller'.pc = "ready"
          /\ ret'.result = Err(NoMsgsErr)
          /\ publish_msgs' = publish_msgs
          /\ lock_owner' = lock_owner]_vars

\* the empty enqueue has failed while messages are pending and a worker holds
\* the lock
C3_Witness ==
    /\ ret.op = "add_msgs"
    /\ ret.arg = <<>>
    /\ ret.result = Err(NoMsgsErr)
    /\ Len(publish_msgs) > 0
    /\ \E w \in Workers : lock_owner = {WorkerThread(w)}

\* the caller has made all its calls, and the last one has returned
CallerFinished == calls = budget.calls /\ caller.pc = "ready"
AllTerminated == \A w \in Workers : pc[w] # "absent" => pc[w] = "done"
Published(m) == \E w \in Workers : m \in Range(published[w])

\* C4: with N >= 1 workers on a non-empty broker list and exactly one Shutdown
\* message enqueued, whatever else is in the queue, all N workers eventually
\* terminate (fair scheduling, every publish eventually returns status 0).
C4_AllWorkersTerminate ==
    (CallerFinished /\ ShutdownCount(enqueued) = 1 /\ ~NoBrokers(config))
        ~> AllTerminated

\* C5: if only Data messages are enqueued, a worker is running and every publish
\* returns status 0, the queue eventually is empty and every enqueued message
\* has been published.
C5_DataAllPublished ==
    (/\ CallerFinished
     /\ ~NoBrokers(config)
     /\ Len(enqueued) >= 1
     /\ \A i \in DOMAIN enqueued : enqueued[i].msg_type = "Data")
        ~> (/\ publish_msgs = <<>>
            /\ \A i \in DOMAIN enqueued : Published(enqueued[i]))

\* C6: on an enabled facade one drain_msgs call returns the whole queue, of any
\* length, and leaves it empty.
C6_DrainMsgsDrainsAll ==
    [][(DrainReturns /\ caller.op = "drain_msgs") =>
          /\ ret'.result = Ok(publish_msgs)
          /\ publish_msgs' = <<>>]_vars

\* C7: a worker that takes a Sensitive message from its batch publishes it as it
\* does a Data message, and keeps the messages that follow it in the batch.
C7_SensitiveIsPublished ==
    [][\A w \in Workers :
          (/\ pc[w] = "process"
           /\ Len(work_vec[w]) > 0
           /\ Head(work_vec[w]).msg_type = "Sensitive"
           /\ pc'[w] # "process") =>
              /\ pc'[w] = "awaiting"
              /\ msg'[w] = Head(work_vec[w])
              /\ work_vec'[w] = Tail(work_vec[w])]_vars

\* C8: on an enabled facade shutdown appends exactly one Shutdown message at the
\* tail, leaves the queued messages as they are and returns Ok; on an empty
\* queue it leaves a queue of one message, of kind Shutdown.
C8_ShutdownAppendsOne ==
    [][(AddReturns /\ caller.op = "shutdown") =>
          /\ Len(publish_msgs') = Len(publish_msgs) + 1
          /\ SubSeq(publish_msgs', 1, Len(publish_msgs)) = publish_msgs
          /\ Last(publish_msgs').msg_type = "Shutdown"
          /\ ret'.result.ok]_vars

\* shutdown has returned Ok and its message stands behind two pending Data messages
C8_Witness ==
    /\ ret.op = "shutdown"
    /\ ret.result.ok
    /\ Len(publish_msgs) = 3
    /\ publish_msgs[1].msg_type = "Data"
    /\ publish_msgs[2].msg_type = "Data"
    /\ publish_msgs[3] = ShutdownMsg

\* C9: shutdown returns success in the step that puts its message in the queue,
\* in every state of the workers: no worker moves in that step, and once the
\* caller holds the lock the return is enabled whatever the workers do.
C9_ShutdownReturnsAtEnqueue ==
    /\ []((caller.pc = "add_locked" /\ caller.op = "shutdown") => ENABLED CallerAdd)
    /\ [][(AddReturns /\ caller.op = "shutdown") =>
             /\ ret'.result = Ok("shutdown started")
             /\ Last(publish_msgs') = ShutdownMsg
             /\ UNCHANGED worker_vars]_vars

\* shutdown has returned success while its message is still queued and every
\* worker of the pool is in the retry sleep of a failed publish
C9_Witness ==
    /\ ret.op = "shutdown"
    /\ ret.result = Ok("shutdown started")
    /\ Len(publish_msgs) > 0
    /\ Last(publish_msgs) = ShutdownMsg
    /\ \A w \in Workers : pc[w] # "absent" => pc[w] = "retry_sleep"
    /\ \A w \in Workers : requeued[w] = 0

\* C10: with is_enabled = false, add_data_msg, add_msg and add_msgs return Ok(0)
\* for every argument and drain_msgs returns an empty Vec; none changes the queue.
C10_DisabledFacadeIsNoOp ==
    [][(/\ CallStarts
        /\ ~config.is_enabled
        /\ CalledOp \in {"add_data_msg", "add_msg", "add_msgs", "drain_msgs"}) =>
          /\ caller'.pc = "ready"
          /\ ret'.result = IF CalledOp = "drain_msgs" THEN Ok(<<>>) ELSE Ok(0)
          /\ publish_msgs' = publish_msgs
          /\ lock_owner' = lock_owner]_vars

\* on a disabled facade add_msgs of an empty Vec has returned Ok(0) while
\* messages enqueued through the api function are pending
C10_Witness ==
    /\ ~config.is_enabled
    /\ ret.op = "add_msgs"
    /\ ret.arg = <<>>
    /\ ret.result = Ok(0)
    /\ Len(publish_msgs) > 10

\* C11: when the pool is not enabled, shutdown() returns Ok("kafka not enabled")
\* and enqueues no Shutdown message: the queue is unchanged.
C11_DisabledShutdownIsNoOp ==
    [][(CallStarts /\ ~config.is_enabled /\ CalledOp = "shutdown") =>
          /\ caller'.pc = "ready"
          /\ ret'.result = Ok("kafka not enabled")
          /\ publish_msgs' = publish_msgs
          /\ lock_owner' = lock_owner]_vars

\* on a disabled facade shutdown has returned while messages enqueued through
\* the api function are pending, none of them a Shutdown message
C11_Witness ==
    /\ ~config.is_enabled
    /\ ret.op = "shutdown"
    /\ ret.result = Ok("kafka not enabled")
    /\ Len(publish_msgs) > 0
    /\ ShutdownCount(publish_msgs) = 0

\* C12: when a publish has returned a non-zero status the worker retries the same
\* message without limit: until the publish of that message returns 0 the worker
\* publishes no other message, does not take the lock to drain or requeue, does
\* not discard the message or the rest of its batch, and does not terminate.
C12_RetryUntilStatusZero ==
    [][\A w \in Workers :
          retrying[w] =>
             \/ /\ retrying'[w]
                /\ pc'[w] \in {"retry_sleep", "awaiting"}
                /\ msg'[w] = msg[w]
                /\ work_vec'[w] = work_vec[w]
                /\ published'[w] = published[w]
                /\ requeued'[w] = requeued[w]
                /\ lock_owner' # {WorkerThread(w)}
             \/ /\ pc[w] = "awaiting"
                /\ pc'[w] = "process"
                /\ published'[w] = Append(published[w], msg[w])
                /\ work_vec'[w] = work_vec[w]]_vars

\* position in the drained batch of the message worker w has removed last
BatchPos(w) == Len(batch[w]) - Len(work_vec[w])

\* C13: within one worker's local batch messages are published strictly in
\* drained order: while the worker attempts the publish of the message at
\* position i of its batch, the messages at positions 1..i-1 have each been
\* published with status 0, in that order, and are the last ones it published.
C13_PublishInDrainedOrder ==
    \A w \in Workers :
        pc[w] \in {"awaiting", "retry_sleep"} =>
            LET i == BatchPos(w)
                n == Len(published[w])
            IN  /\ i >= 1
                /\ msg[w] = batch[w][i]
                /\ n >= i - 1
                /\ SubSeq(published[w], n - i + 2, n) = SubSeq(batch[w], 1, i - 1)

\* a worker attempts the last message of a full batch, the nine messages before
\* it published in drained order
C13_Witness ==
    \E w \in Workers :
        /\ pc[w] = "awaiting"
        /\ Len(batch[w]) = 10
        /\ work_vec[w] = <<>>
        /\ published[w] = SubSeq(batch[w], 1, 9)
        /\ msg[w] = batch[w][10]

\* the threads that are inside an append or a drain of the queue
InCriticalSection ==
    {WorkerThread(w) : w \in {v \in Workers : pc[v] \in {"drain_locked", "requeue_locked"}}}
        \cup (IF caller.pc \in {"add_locked", "drain_locked"} THEN {CallerThread} ELSE {})

\* the step changes the queue by one whole append or one whole drain of thread t
WholeOperation(t) ==
    IF t = CallerThread
    THEN \/ caller.pc = "add_locked" /\ publish_msgs' = publish_msgs \o caller.msgs
         \/ /\ caller.pc = "drain_locked"
            /\ ret'.result.val \o publish_msgs' = publish_msgs
    ELSE \E w \in Workers :
            /\ t = WorkerThread(w)
            /\ \/ /\ pc[w] = "drain_locked"
                  /\ work_vec'[w] \o publish_msgs' = publish_msgs
               \/ /\ pc[w] = "requeue_locked"
                  /\ publish_msgs' = Append(publish_msgs, msg[w])

\* C14: at most one thread, worker or caller, is inside an append or a drain of
\* the queue at any time, and every change of the queue is one whole append (the
\* messages of the call, contiguous, at the tail) or one whole drain (a prefix of
\* the queue as it was) done by the thread that holds the lock.
C14_OneThreadInQueue ==
    /\ [](Cardinality(InCriticalSection) <= 1 /\ lock_owner = InCriticalSection)
    /\ [][publish_msgs' # publish_msgs =>
             /\ Cardinality(lock_owner) = 1
             /\ lock_owner' = {}
             /\ \A t \in lock_owner : WholeOperation(t)]_vars

\* a worker is inside its drain of a queue of more than 10 messages while the
\* other worker has a Shutdown message to requeue and the caller has returned
C14_Witness ==
    \E w, v \in Workers :
        /\ w # v
        /\ lock_owner = {WorkerThread(w)}
        /\ pc[w] = "drain_locked"
        /\ pc[v] = "process"
        /\ Len(work_vec[v]) > 0
        /\ Head(work_vec[v]).msg_type = "Shutdown"
        /\ Len(publish_msgs) > 10

\* C15: successive drains with no enqueue in between partition the queue in
\* order: after a drain that returned 10 messages and left at most 10, the next
\* drain returns exactly the messages left; and what the drains returned so far,
\* followed by what is left in the queue, is what was enqueued, in order.
C15_DrainsPartitionQueue ==
    /\ [](drained \o publish_msgs = enqueued)
    /\ [][(/\ DrainReturns
           /\ ret.op \in {"drain", "drain_msgs"}
           /\ Len(ret.result.val) = 10
           /\ Len(publish_msgs) <= 10) =>
             /\ ret'.result = Ok(publish_msgs)
             /\ publish_msgs' = <<>>
             /\ drained' = enqueued]_vars

\* a queue of 11 messages has been drained by two successive calls: the first
\* returned 10 messages, the second the one that was left
C15_Witness ==
    /\ ret.op = "drain"
    /\ Len(enqueued) = 11
    /\ Len(ret.result.val) = 1
    /\ ret.result.val[1] = enqueued[11]
    /\ drained = enqueued
    /\ publish_msgs = <<>>

\* the positions of a worker task that has ended
Ended == {"exited", "done", "panicked"}

\* C16: a worker terminates only when it has observed a Shutdown message in its
\* local batch or when it found no usable broker at startup; no other event ends
\* it: no Data message of any payload, no failed publish, no unsupported kind.
C16_EndsOnlyOnShutdown ==
    [][\A w \in Workers :
          (pc[w] \notin Ended /\ pc'[w] \in Ended) =>
             \/ /\ pc[w] = "spawned"
                /\ NoBrokers(config)
             \/ /\ pc[w] = "requeue_locked"
                /\ msg[w].msg_type = "Shutdown"
                /\ should_shutdown[w]]_vars

\* the configuration names no broker: the list is empty or its entry is blank
BrokerListBlank == config.broker_list \in {<<>>, <<"">>}

\* C17: if the broker list is empty or its entry is blank, every worker exits at
\* startup without ever draining or appending to the queue; the messages enqueued
\* through the facade are removed by no worker and stay in the queue, in order,
\* until drain_msgs removes them.
C17_NoBrokersNoWorker ==
    /\ [](BrokerListBlank =>
             /\ \A w \in Workers :
                   /\ pc[w] \in {"absent", "spawned", "exited"}
                   /\ work_vec[w] = <<>>
                   /\ published[w] = <<>>
                   /\ requeued[w] = 0
             /\ lock_owner \subseteq {CallerThread}
             /\ drained \o publish_msgs = enqueued)
    /\ [][(BrokerListBlank /\ publish_msgs' # publish_msgs) =>
             \/ AddReturns /\ publish_msgs' = publish_msgs \o caller.msgs
             \/ DrainReturns /\ caller.op = "drain_msgs"]_vars

\* both workers of a pool without brokers have exited and everything the caller
\* enqueued, Data messages and a Shutdown message, is still in the queue
C17_Witness ==
    /\ BrokerListBlank
    /\ \A w \in Workers : pc[w] = "exited"
    /\ Len(enqueued) >= 2
    /\ publish_msgs = enqueued
    /\ Last(publish_msgs) = ShutdownMsg
    /\ caller.pc = "ready"

\* C18: when the queue lock is poisoned, an enqueue of a non-empty batch returns
\* an error value at once: the call in progress can always return, it returns
\* Err with the diagnostic string, and the queue content is unchanged.
C18_PoisonedEnqueueFails ==
    /\ [](caller.pc = "add_locked" => ENABLED CallerAdd)
    /\ [][(AddReturns /\ poisoned) =>
             /\ Len(caller.msgs) >= 1
             /\ ~ret'.result.ok
             /\ ret'.result.val =
                   "failed to get lock on work vec with err=poisoned lock: another task failed inside"
             /\ publish_msgs' = publish_msgs
             /\ lock_owner' = {}]_vars

\* add_msgs of two messages has failed on the poisoned lock, the messages
\* enqueued before still in the queue
C18_Witness ==
    /\ poisoned
    /\ ret.op = "add_msgs"
    /\ Len(ret.arg) = 2
    /\ ~ret.result.ok
    /\ Len(publish_msgs) >= 1
    /\ publish_msgs = enqueued

\* C19: when the queue lock is poisoned a drain returns an empty sequence and
\* leaves the queue unchanged; a worker that gets this result goes to its idle
\* sleep and then drains again, as for an empty queue: it does not terminate, and
\* nothing is reported to the caller.
C19_PoisonedDrainIsEmpty ==
    /\ [][(DrainReturns /\ poisoned) =>
             /\ ret'.result = Ok(<<>>)
             /\ publish_msgs' = publish_msgs]_vars
    /\ [][\A w \in Workers :
             (pc[w] = "drain_locked" /\ pc'[w] # "drain_locked" /\ poisoned) =>
                /\ pc'[w] = "idle"
                /\ work_vec'[w] = <<>>
                /\ publish_msgs' = publish_msgs
                /\ <<caller, ret>>' = <<caller, ret>>]_vars
    /\ [][\A w \in Workers :
             (pc[w] = "idle" /\ pc'[w] # "idle") => pc'[w] = "drain_locked"]_vars

\* a worker sleeps idle after a drain of the poisoned lock while messages are
\* pending, and the caller's drain_msgs has returned nothing
C19_Witness ==
    /\ poisoned
    /\ Len(publish_msgs) >= 1
    /\ \E w \in Workers : pc[w] = "idle" /\ work_vec[w] = <<>>
    /\ ret.op = "drain_msgs"
    /\ ret.result = Ok(<<>>)

\* the headers g and h are equal as Option<HashMap>: both None, or the same
\* entries whatever the order in which the two maps iterate
SameHeaders(g, h) ==
    IF g = None \/ h = None THEN g = h ELSE Range(g[1]) = Range(h[1])

\* messages a and b are equal in every field but the payload
DifferOnlyInPayload(a, b) ==
    /\ a.payload # b.payload
    /\ a.msg_type = b.msg_type
    /\ a.topic = b.topic
    /\ a.key = b.key
    /\ SameHeaders(a.headers, b.headers)

\* two messages that differ only in payload are printed one after the other, in
\* the same representation
PrintedPair ==
    /\ CallStarts
    /\ ret.op \in {"display", "debug"}
    /\ ret'.op = ret.op
    /\ DifferOnlyInPayload(ret.arg[1], ret'.arg[1])

\* C20 as stated: the Display and the Debug representation of a Sensitive message
\* do not depend on its payload: two Sensitive messages that differ only in
\* payload are printed the same; for every other kind the payload is printed,
\* and two messages that differ only in payload are printed differently.
C20_SensitivePayloadNotPrinted ==
    [][PrintedPair =>
          IF ret.arg[1].msg_type = "Sensitive"
          THEN ret'.result = ret.result
          ELSE ret'.result # ret.result]_vars

\* C20: the representation of a Sensitive message is the one of the same message
\* with an empty payload; two Sensitive messages that differ only in payload are
\* printed the same when their header maps iterate in the same order; for every
\* other kind two messages that differ only in payload are printed differently.
C20_SensitivePrintedUpToHeaderOrder ==
    /\ [][PrintedPair =>
             IF ret.arg[1].msg_type = "Sensitive"
             THEN ret.arg[1].headers = ret'.arg[1].headers => ret'.result = ret.result
             ELSE ret'.result # ret.result]_vars
    /\ []((ret.op \in {"display", "debug"} /\ ret.arg[1].msg_type = "Sensitive") =>
             ret.result.val =
                 LET blank == [ret.arg[1] EXCEPT !.payload = ""]
                 IN  IF ret.op = "display" THEN Display(blank) ELSE Debug(blank))

\* a Sensitive message with a header and a payload has been printed after
\* another message, and its representation is the one the code writes
C20_Witness ==
    /\ calls = 2
    /\ ret.op = "display"
    /\ ret.arg[1].msg_type = "Sensitive"
    /\ ret.arg[1].payload = "test message 0"
    /\ ret.arg[1].topic = "testing"
    /\ ret.arg[1].headers = Some(<<<<"k", "v">>>>)
    /\ ret.result.val =
          "SENSITIVE KafkaPublishMessage type=Sensitive topic=testing key=testing headers=Some({\"k\": \"v\"})"

\* the messages of one topic: the sum of high - low over its partitions, a
\* failed watermark fetch counting for nothing
RECURSIVE TopicMessages(_)
TopicMessages(partitions) ==
    IF Len(partitions) = 0 THEN 0
    ELSE (IF Head(partitions).ok
          THEN Head(partitions).high - Head(partitions).low ELSE 0)
            + TopicMessages(Tail(partitions))

\* C21: with fetch_offsets = true the message count reported for each topic is
\* the sum of high - low over that topic's own partitions, a failed watermark
\* fetch contributing 0, for every number of topics and partitions.
C21_CountPerTopic ==
    (ret.op = "get_metadata" /\ config.is_enabled /\ ret.arg[1]) =>
        /\ Len(ret.result.val) = Len(ret.arg[2])
        /\ \A i \in 1..Len(ret.arg[2]) :
              ret.result.val[i] = TopicMessages(ret.arg[2][i].partitions)

\* the sum of f over the set S
RECURSIVE SumOver(_, _)
SumOver(f, S) ==
    IF S = {} THEN 0
    ELSE LET x == CHOOSE y \in S : TRUE IN f[x] + SumOver(f, S \ {x})

\* C22: with N workers and a single Shutdown message enqueued by the caller, the
\* workers requeue the Shutdown message at most N times in total and each worker
\* at most once, in every interleaving: a worker that has requeued it ends.
C22_RequeueBounded ==
    ShutdownCount(enqueued) = 1 =>
        /\ \A w \in Workers :
              /\ requeued[w] <= 1
              /\ requeued[w] = 1 => pc[w] = "done"
        /\ SumOver(requeued, Workers) <= config.num_threads

\* after a single shutdown() both workers of a pool of two have requeued the
\* Shutdown message, once each
C22_Witness ==
    /\ config.num_threads = 2
    /\ ret.op = "shutdown"
    /\ ShutdownCount(enqueued) = 1
    /\ \A w \in Workers : requeued[w] = 1
    /\ ShutdownCount(publish_msgs) = 1

\* C23: a worker that takes a Shutdown message from its batch sets its
\* terminating flag and appends exactly one copy of the message at the tail of
\* the queue; it stops the batch at once: the messages that follow the Shutdown
\* are neither published nor put back in the queue, and the worker terminates.
C23_ShutdownStopsBatch ==
    [][\A w \in Workers :
          /\ (/\ pc[w] = "process"
              /\ Len(work_vec[w]) > 0
              /\ Head(work_vec[w]).msg_type = "Shutdown"
              /\ pc'[w] # "process") =>
                 /\ pc'[w] = "requeue_locked"
                 /\ should_shutdown'[w]
                 /\ msg'[w] = Head(work_vec[w])
                 /\ work_vec'[w] = Tail(work_vec[w])
                 /\ published'[w] = published[w]
                 /\ publish_msgs' = publish_msgs
          /\ (pc[w] = "requeue_locked" /\ pc'[w] # "requeue_locked") =>
                 /\ msg[w].msg_type = "Shutdown"
                 /\ publish_msgs' = Append(publish_msgs, msg[w])
                 /\ pc'[w] = "done"
                 /\ published'[w] = published[w]
                 /\ work_vec'[w] = work_vec[w]
          /\ pc[w] = "done" =>
                 /\ pc'[w] = "done"
                 /\ published'[w] = published[w]
                 /\ requeued'[w] = requeued[w]
                 /\ lock_owner' # {WorkerThread(w)}]_vars

\* a worker has terminated on a Shutdown message that a Data message followed in
\* its batch: the Data message is neither published nor back in the queue, whose
\* last message is the requeued Shutdown
C23_Witness ==
    \E w \in Workers :
        /\ pc[w] = "done"
        /\ requeued[w] = 1
        /\ Len(work_vec[w]) >= 1
        /\ work_vec[w][1].msg_type = "Data"
        /\ ~Published(work_vec[w][1])
        /\ work_vec[w][1] \notin Range(publish_msgs)
        /\ Len(publish_msgs) >= 1
        /\ Last(publish_msgs).msg_type = "Shutdown"

\* C24: a worker that takes a LogBrokerDetails or LogBrokerTopicDetails message
\* from its batch publishes nothing for it and stops the batch: every message
\* left in the batch is discarded, neither published nor requeued; the worker
\* does not terminate and returns to draining the queue.
C24_LogBrokerDropsBatch ==
    [][\A w \in Workers :
          /\ (/\ pc[w] = "process"
              /\ Len(work_vec[w]) > 0
              /\ Head(work_vec[w]).msg_type
                    \in {"LogBrokerDetails", "LogBrokerTopicDetails"}
              /\ <<pc[w], work_vec[w]>>' # <<pc[w], work_vec[w]>>) =>
                 /\ pc'[w] = "drain"
                 /\ work_vec'[w] = <<>>
                 /\ msg'[w] = <<>>
                 /\ published' = published
                 /\ requeued' = requeued
                 /\ publish_msgs' = publish_msgs
          /\ (pc[w] = "drain" /\ pc'[w] # "drain") =>
                 /\ pc'[w] = "drain_locked"
                 /\ lock_owner' = {WorkerThread(w)}]_vars

\* a LogBrokerDetails or LogBrokerTopicDetails message and the Data message
\* enqueued behind it are gone: no worker has ended, none holds or has published
\* a message, and the queue is empty
C24_Witness ==
    /\ Len(enqueued) = 2
    /\ enqueued[1].msg_type \in {"LogBrokerDetails", "LogBrokerTopicDetails"}
    /\ enqueued[2].msg_type = "Data"
    /\ publish_msgs = <<>>
    /\ caller.pc = "ready"
    /\ \E w \in Workers : pc[w] = "drain"
    /\ \A w \in Workers :
          /\ pc[w] \notin Ended
          /\ work_vec[w] = <<>>
          /\ msg[w] = <<>>
          /\ published[w] = <<>>

\* the positions in which a worker publishes, sleeps or has terminated
OutsideQueue == {"awaiting", "idle", "retry_sleep", "done", "exited", "panicked"}

\* C25: no thread holds the queue lock while it publishes, while it sleeps (idle
\* sleep or retry sleep) or after it has terminated; the caller holds it in no
\* state in which its call has returned.
C25_NoLockOutsideQueue ==
    /\ \A w \in Workers :
          pc[w] \in OutsideQueue \cup {"process", "drain", "spawned", "absent"} =>
              WorkerThread(w) \notin lock_owner
    /\ caller.pc = "ready" => CallerThread \notin lock_owner

\* one worker is in its retry sleep and the other in its idle sleep while the
\* caller holds the lock for an enqueue
C25_Witness ==
    \E w, v \in Workers :
        /\ pc[w] = "retry_sleep"
        /\ pc[v] = "idle"
        /\ caller.pc = "add_locked"
        /\ lock_owner = {CallerThread}

\* how many times message m occurs in the sequence q
Occurrences(m, q) == Cardinality({i \in DOMAIN q : q[i] = m})

\* the places message m is in: the queue, and each worker's local batch (what is
\* left of it and the message being published)
Places(m) ==
    Occurrences(m, publish_msgs)
      + SumOver([w \in Workers |->
                    Occurrences(m, work_vec[w]) + (IF msg[w] = m THEN 1 ELSE 0)],
                Workers)

\* C26: every enqueued Data message is at any time in at most one place, the
\* queue or the local batch of one worker: never in two workers' batches, nor
\* in a batch and in the queue; a Data message in a place was enqueued once.
C26_DataInOnePlace ==
    /\ \A i \in DOMAIN enqueued :
          enqueued[i].msg_type = "Data" =>
              /\ Places(enqueued[i]) <= 1
              /\ Occurrences(enqueued[i], enqueued) = 1
    /\ \A w \in Workers : \A i \in DOMAIN work_vec[w] :
          work_vec[w][i].msg_type = "Data" => work_vec[w][i] \in Range(enqueued)
    /\ \A i \in DOMAIN publish_msgs :
          publish_msgs[i].msg_type = "Data" => publish_msgs[i] \in Range(enqueued)

\* both workers hold Data messages of their own batches, one of them a message
\* being published, while more Data messages wait in the queue
C26_Witness ==
    \E w, v \in Workers :
        /\ w # v
        /\ Len(work_vec[w]) >= 1
        /\ pc[v] = "awaiting"
        /\ msg[v].msg_type = "Data"
        /\ Len(publish_msgs) >= 1
        /\ \A i \in DOMAIN publish_msgs : publish_msgs[i].msg_type = "Data"

\* worker v has work to do: its publish is in flight, or it has not started
\* while messages wait in the queue
HasWork(v) ==
    \/ pc[v] = "awaiting"
    \/ pc[v] = "spawned" /\ Len(publish_msgs) > 0

\* C27: a worker in its idle sleep or its retry sleep does not stall the other
\* workers, for every number of executor threads >= 1, fewer than the workers
\* included: while it waits, every other worker that has work to do can run.
C27_SleepStallsNoWorker ==
    \A w, v \in Workers :
        (w # v /\ pc[w] \in {"idle", "retry_sleep"} /\ HasWork(v)) =>
            ENABLED WorkerStep(v)

\* C28: a worker that retries a publish that fails for good cannot be cancelled:
\* whatever is called, shutdown() included, it stays in its retry loop on the
\* same message, never observes a Shutdown message and never terminates (the
\* other workers can still terminate); no other operation stops it.
C28_StuckRetryNotCancelled ==
    [][\A w \in Workers :
          retrying[w] =>
             /\ retrying'[w]
             /\ pc'[w] \in {"awaiting", "retry_sleep"}
             /\ msg'[w] = msg[w]
             /\ work_vec'[w] = work_vec[w]
             /\ ~should_shutdown'[w]
             /\ requeued'[w] = requeued[w]]_vars

\* the state of worker v
WorkerState(v) ==
    <<pc[v], work_vec[v], msg[v], retrying[v], should_shutdown[v], published[v],
      requeued[v]>>

\* C29: when a worker's drain returns an empty batch the worker goes idle and
\* then drains again: the step changes neither the queue nor any other worker's
\* state and publishes nothing; the worker keeps no state of the iteration and
\* does not terminate.
C29_EmptyDrainGoesIdle ==
    [][\A w \in Workers :
          /\ (/\ pc[w] = "drain_locked"
              /\ pc'[w] # "drain_locked"
              /\ publish_msgs = <<>>) =>
                 /\ pc'[w] = "idle"
                 /\ publish_msgs' = <<>>
                 /\ work_vec'[w] = <<>>
                 /\ msg'[w] = <<>>
                 /\ ~retrying'[w]
                 /\ ~should_shutdown'[w]
                 /\ published' = published
                 /\ requeued' = requeued
                 /\ \A v \in Workers \ {w} : WorkerState(v)' = WorkerState(v)
                 /\ <<caller, ret>>' = <<caller, ret>>
          /\ (pc[w] = "idle" /\ WorkerState(w)' # WorkerState(w)) =>
                 /\ pc'[w] = "drain_locked"
                 /\ work_vec'[w] = <<>>
                 /\ msg'[w] = <<>>
                 /\ ~should_shutdown'[w]
                 /\ published'[w] = published[w]]_vars

\* a worker that has published a message sleeps idle after a drain of the empty
\* queue while the other worker waits for the delivery of its own message
C29_Witness ==
    \E w, v \in Workers :
        /\ pc[w] = "idle"
        /\ Len(published[w]) >= 1
        /\ pc[v] = "awaiting"
        /\ publish_msgs = <<>>

\* C30: in every reachable state the local batch of every worker holds at most
\* 10 messages, whatever the length of the queue and however many messages are
\* enqueued at once.
C30_BatchAtMostTen ==
    \A w \in Workers :
        /\ Len(batch[w]) <= 10
        /\ Len(work_vec[w]) + (IF msg[w] = <<>> THEN 0 ELSE 1) <= 10

\* after an enqueue of more than 10 messages at once a worker holds a full batch
\* of 10 messages, none of them taken yet, and the rest waits in the queue
C30_Witness ==
    \E w \in Workers :
        /\ Len(work_vec[w]) = 10
        /\ pc[w] = "process"
        /\ ret.op = "add_msgs"
        /\ Len(ret.arg) > 10
        /\ Len(publish_msgs) >= 1

\* the enqueue methods of the facade
EnqueueOps == {"add_data_msg", "add_msg", "add_msgs", "shutdown"}

\* the step in which a call of the caller returns, at once or after its append
CallReturns == (CallStarts /\ caller'.pc = "ready") \/ AddReturns

\* the number of messages the returning call was given (shutdown builds one)
GivenCount ==
    IF ret'.op = "shutdown" THEN 1
    ELSE IF ret'.op = "add_data_msg" THEN 1
    ELSE Len(ret'.arg)

\* the result of an enqueue as a function of the method, the number of messages
\* given, the enabled flag, the state of the lock and the length of the queue
EnqueueResult(op, n, enabled, lock_poisoned, queue_len) ==
    IF ~enabled
    THEN (IF op = "shutdown" THEN Ok("kafka not enabled") ELSE Ok(0))
    ELSE IF n = 0 THEN Err("no msgs to add")
    ELSE IF lock_poisoned
         THEN Err("failed to get lock on work vec with err=poisoned lock: another task failed inside")
    ELSE IF op = "shutdown" THEN Ok("shutdown started")
    ELSE Ok(queue_len + n)

\* C31 as stated: the result of an enqueue call depends only on the number of
\* messages given, the enabled flag and the state of the lock, so that runs that
\* differ in the workers' states or in the publish outcomes (a queue already
\* drained or not) return the same result: that of the call on an empty queue.
C31_ResultFromCallOnly ==
    [][(CallReturns /\ ret'.op \in EnqueueOps) =>
          ret'.result =
              EnqueueResult(ret'.op, GivenCount, config.is_enabled, poisoned, 0)]_vars

\* C31, amended: the result of an enqueue call depends only on the method, the
\* number of messages given, the enabled flag, the state of the lock and the
\* length of the queue at the append; no worker-internal error (failed publish,
\* missing brokers, unsupported kind) is reported to the caller, and the call
\* changes no worker's state.
C31_ResultFromCallAndQueue ==
    [][(CallReturns /\ ret'.op \in EnqueueOps) =>
          /\ ret'.result =
                EnqueueResult(ret'.op, GivenCount, config.is_enabled, poisoned,
                              Len(publish_msgs))
          /\ UNCHANGED worker_vars]_vars

\* an enqueue of one message has returned Ok(2), the message before it still
\* queued, while every worker of the pool has exited for want of brokers
C31_Witness ==
    /\ config.broker_list \in {<<>>, <<"">>}
    /\ \A w \in Workers : pc[w] \in {"absent", "exited"}
    /\ \E w \in Workers : pc[w] = "exited"
    /\ ret.op \in {"add_data_msg", "add_msg"}
    /\ ret.result = Ok(2)
    /\ Len(publish_msgs) = 2

\* the Shutdown messages worker w holds: in what is left of its batch, and the
\* one it has taken to requeue
HeldShutdowns(w) ==
    ShutdownCount(work_vec[w])
      + (IF msg[w] # <<>> /\ msg[w].msg_type = "Shutdown" THEN 1 ELSE 0)

\* C32: every Shutdown message a worker has removed from the queue is requeued
\* by that worker before it drains again or terminates, whatever else is in its
\* batch and wherever the Shutdown stands: a worker gives up a Shutdown message
\* only by appending a copy to the queue, and holds none when it has ended.
C32_ShutdownAlwaysRequeued ==
    /\ [](\A w \in Workers : pc[w] \in Ended => HeldShutdowns(w) = 0)
    /\ [][\A w \in Workers :
             HeldShutdowns(w)' < HeldShutdowns(w) =>
                /\ HeldShutdowns(w)' = HeldShutdowns(w) - 1
                /\ Len(publish_msgs') = Len(publish_msgs) + 1
                /\ Last(publish_msgs').msg_type = "Shutdown"
                /\ requeued'[w] = requeued[w] + 1]_vars

\* String::len(): the length of a str in bytes
RECURSIVE ByteLen(_)
ByteLen(str) ==
    IF Len(str) = 0 THEN 0
    ELSE FirstCharLen(str) + ByteLen(SubSeq(str, 2, Len(str)))

\* the caller has enqueued only Data messages of at least 10 payload bytes and
\* Shutdown messages
OnlyLongDataAndShutdown ==
    \A i \in DOMAIN enqueued :
        \/ enqueued[i].msg_type = "Shutdown"
        \/ enqueued[i].msg_type = "Data" /\ ByteLen(enqueued[i].payload) >= 10

\* the Data messages enqueued before the first Shutdown message
BeforeShutdown ==
    {enqueued[i] : i \in {j \in DOMAIN enqueued :
                            /\ enqueued[j].msg_type = "Data"
                            /\ \A k \in 1..j : enqueued[k].msg_type # "Shutdown"}}

\* the workers of the pool can connect: the broker list names a broker and the
\* client library accepts the configuration
PoolCanConnect == ~BrokerListBlank /\ ~ClientCreateFails(config)

\* C33: graceful shutdown loses no earlier work: in a pool that can connect, with
\* only Data messages (of at least 10 payload bytes) and one Shutdown enqueued
\* and publishes that eventually return 0, every Data message enqueued before
\* the shutdown is published, and no worker terminates while such a message is
\* still unpublished in its local batch.
C33_ShutdownKeepsEarlierWork ==
    /\ (/\ CallerFinished
        /\ OnlyLongDataAndShutdown
        /\ ShutdownCount(enqueued) = 1
        /\ PoolCanConnect)
          ~> (\A m \in BeforeShutdown : Published(m))
    /\ []((OnlyLongDataAndShutdown /\ ShutdownCount(enqueued) = 1) =>
             \A w \in Workers :
                 pc[w] = "done" => Range(work_vec[w]) \cap BeforeShutdown = {})

\* how many times message m stands in the workers' histories of publishes that
\* returned status 0
PublishedCount(m) ==
    SumOver([w \in Workers |-> Occurrences(m, published[w])], Workers)

\* the step in which the delivery of worker w's message is acknowledged: the
\* future resolves to (partition, offset), which the worker reads as status 0
\* (partition 0) or as a failure to retry (any other partition)
Acknowledged(w) ==
    pc[w] = "awaiting" /\ pc'[w] \in {"process", "retry_sleep"}

\* C34: no message is published successfully more than once: the publishes that
\* returned status 0 are a sub-multiset of the Data messages enqueued by the
\* caller, no worker publishes a message that was not enqueued or a Shutdown
\* message, and a message whose delivery was acknowledged is not sent again.
C34_PublishedAtMostOnce ==
    /\ [](\A w \in Workers : \A i \in DOMAIN published[w] :
             /\ published[w][i].msg_type = "Data"
             /\ PublishedCount(published[w][i])
                   <= Occurrences(published[w][i], enqueued))
    /\ [][\A w \in Workers :
             Acknowledged(w) =>
                /\ msg[w].msg_type = "Data"
                /\ msg[w] \in Range(enqueued)
                /\ ~retrying[w]]_vars

\* the position of message m in the caller's history of enqueues
EnqueuedPos(m) == CHOOSE i \in DOMAIN enqueued : enqueued[i] = m

\* C35: with exactly one worker and only Data messages enqueued, the order of
\* the successful publishes is the order in which the messages were enqueued,
\* through retries and from one batch to the next: the published messages are
\* enqueued messages in increasing position, and while the caller has drained
\* nothing and the worker runs they are a prefix of what was enqueued. (With two
\* or more workers no such order holds.)
C35_OneWorkerFifo ==
    (config.num_threads = 1 /\ \A i \in DOMAIN enqueued : enqueued[i].msg_type = "Data")
        => LET p == published[0]
           IN  /\ \A i \in DOMAIN p : p[i] \in Range(enqueued)
               /\ \A i, j \in DOMAIN p :
                     i < j => EnqueuedPos(p[i]) < EnqueuedPos(p[j])
               /\ (drained = <<>> /\ pc[0] # "panicked") =>
                     p = SubSeq(enqueued, 1, Len(p))

\* the only worker of the pool has published 11 messages enqueued at once, the
\* ten of its first batch and the one of its second, in the order of the enqueue
C35_Witness ==
    /\ config.num_threads = 1
    /\ Len(enqueued) = 11
    /\ published[0] = enqueued
    /\ \A i \in DOMAIN enqueued : enqueued[i].msg_type = "Data"

\* the Shutdown messages in the queue and in the workers' hands
ShutdownsAround ==
    ShutdownCount(publish_msgs)
      + SumOver([w \in Workers |-> HeldShutdowns(w)], Workers)

\* C36: the poison pill is never amplified: in every reachable state the number
\* of Shutdown messages in the queue plus those in the workers' local batches is
\* at most the number of Shutdown messages the caller enqueued (by shutdown() or
\* built by hand), and a worker's requeue never raises this number.
C36_ShutdownNotAmplified ==
    /\ [](ShutdownsAround <= ShutdownCount(enqueued))
    /\ [][\A w \in Workers :
             requeued'[w] # requeued[w] => ShutdownsAround' = ShutdownsAround]_vars

\* of two Shutdown messages enqueued by the caller one has been requeued by a
\* worker, and two are in the queue and the workers' batches
C36_Witness ==
    /\ ShutdownCount(enqueued) = 2
    /\ ShutdownsAround = 2
    /\ \E w \in Workers : requeued[w] = 1

\* a single shutdown() is all the caller has enqueued and drained nothing, and
\* every worker of the pool has terminated
TerminatedOnOneShutdown ==
    /\ enqueued = <<ShutdownMsg>>
    /\ drained = <<>>
    /\ AllTerminated

\* C37: after a single shutdown() on a queue holding only that Shutdown message,
\* once all N workers have terminated the queue holds exactly one Shutdown
\* message and keeps it unless the caller drains it: no worker empties the queue
\* again, and drain_msgs() after full termination returns that message.
C37_ShutdownStaysQueued ==
    /\ [](TerminatedOnOneShutdown => publish_msgs = <<ShutdownMsg>>)
    /\ [][(TerminatedOnOneShutdown /\ publish_msgs' # publish_msgs) =>
             \/ AddReturns
             \/ /\ DrainReturns
                /\ ret'.result = Ok(<<ShutdownMsg>>)
                /\ publish_msgs' = <<>>]_vars
    /\ [][(TerminatedOnOneShutdown /\ DrainReturns) =>
             ret'.result = Ok(<<ShutdownMsg>>)]_vars

\* after both workers of a pool of two have terminated on a single shutdown(),
\* drain_msgs() has returned the Shutdown message
C37_Witness ==
    /\ config.num_threads = 2
    /\ AllTerminated
    /\ enqueued = <<ShutdownMsg>>
    /\ ret.op = "drain_msgs"
    /\ ret.result = Ok(<<ShutdownMsg>>)
    /\ publish_msgs = <<>>

\* C38: the system never deadlocks on the queue lock: every enqueue or drain
\* that a caller or a worker has started returns, in every state of the other
\* workers (idle, retrying a failing publish, terminated) and of the lock: a
\* held lock is released, it is held exactly by the thread that is inside such
\* a call, and that thread can always take the step that ends the call.
C38_NoDeadlockOnLock ==
    /\ (lock_owner # {}) ~> (lock_owner = {})
    /\ [](lock_owner = InCriticalSection)
    /\ [](caller.pc # "ready" => ENABLED CallerReturn)
    /\ [](\A w \in Workers :
             /\ pc[w] = "drain_locked" => ENABLED WorkerDrain(w)
             /\ pc[w] = "requeue_locked" => ENABLED WorkerRequeue(w))

\* shutdown() has returned and one worker has requeued the Shutdown message and
\* terminated while the other worker is in the retry sleep of a failing publish
C38_Witness ==
    \E w, v \in Workers :
        /\ pc[w] = "retry_sleep"
        /\ pc[v] = "done"
        /\ requeued[v] = 1
        /\ ret.op = "shutdown"
        /\ ret.result.ok
        /\ lock_owner = {}

\* C39: terminated is absorbing: a worker that has set its terminating flag and
\* left its loop stays terminated, keeps its state, and never again takes the
\* lock, drains, publishes or enqueues; once every worker of the pool has
\* terminated nothing more is published and the queue changes only by a call of
\* the caller, so a message enqueued after that stays in the queue unpublished.
C39_TerminatedIsAbsorbing ==
    /\ [][\A w \in Workers :
             pc[w] = "done" =>
                 /\ WorkerState(w)' = WorkerState(w)
                 /\ batch'[w] = batch[w]
                 /\ WorkerThread(w) \notin lock_owner
                 /\ WorkerThread(w) \notin lock_owner'
                 /\ ~WholeOperation(WorkerThread(w))]_vars
    /\ [][AllTerminated =>
             /\ AllTerminated'
             /\ published' = published
             /\ \/ publish_msgs' = publish_msgs
                \/ AddReturns /\ publish_msgs' = publish_msgs \o caller.msgs
                \/ DrainReturns]_vars
    /\ [](\A w \in Workers : pc[w] = "done" => should_shutdown[w])

\* both workers of a pool of two have terminated and requeued the Shutdown
\* message, and a Data message enqueued after that is in the queue behind it,
\* published by nobody
C39_Witness ==
    /\ config.num_threads = 2
    /\ \A w \in Workers : pc[w] = "done"
    /\ Len(publish_msgs) = 2
    /\ publish_msgs[1].msg_type = "Shutdown"
    /\ publish_msgs[2].msg_type = "Data"
    /\ ~Published(publish_msgs[2])
    /\ ret.op = "add_data_msg"
    /\ caller.pc = "ready"

====
